---- MODULE Spec2Model ----
(***************************************************************************)
(* A model of arcade_tools.GameElement (src/src/arcade_tools/              *)
(* GameElement.py): construction, update, collided_with and draw, together *)
(* with the parts of pygame the class relies on (the init flag, Surface    *)
(* sizes, the integer Rect and its move_ip, the mutable Vector2, blit).    *)
(*                                                                         *)
(* Vector2 components are floats in the program.  Here a component is an   *)
(* integer number of 1/VelScale pixels per millisecond, so 0.1 is 2 and    *)
(* -0.05 is -1.  For the components and time deltas used below the float   *)
(* product velocity * dt, cut to an int by move_ip, equals the exact       *)
(* rational product cut toward zero.                                       *)
(***************************************************************************)
EXTENDS Integers, Sequences, FiniteSets, TLC

\* ------------------------------------------------------------------ bounds
MaxElems == 2
MaxCalls == 2

\* ------------------------------------------------------- values and inputs
VelScale == 20

None == "None"

\* The classes constructed: the base class and a subclass that overrides
\* nothing (self.__class__.__name__ differs).
Classes == {"GameElement", "Player"}

\* Image files pygame.image.load can decode, with their sizes.
Files == [p \in {"ship.png"} |-> [w |-> 32, h |-> 16]]

Tile == [name |-> "tile", w |-> 8, h |-> 8]

Str(path) == [kind |-> "str", path |-> path, surface |-> None]
Surface(s) == [kind |-> "Surface", path |-> None, surface |-> s]
Other == [kind |-> "int", path |-> None, surface |-> None]

Vector2(x, y) == [x |-> x, y |-> y]

\* The velocity argument: a Vector2 the caller has just built, or left out.
Given(x, y) == [given |-> TRUE, value |-> Vector2(x, y)]
LeftOut == [given |-> FALSE, value |-> Vector2(0, 0)]

Args(image, x, y, velocity, collidable) ==
    [image |-> image, x |-> x, y |-> y, velocity |-> velocity,
     collidable |-> collidable]

\* The constructor calls made.  The image is a str (a file that loads, a
\* file that does not), a pygame.Surface or a value of another type; the
\* velocity is a Vector2 the caller has just built ((0.1, -0.05) or
\* (-1, 0.5)) or is left out.
ConstructArgs ==
    { Args(Str("ship.png"), 10, 20, Given(2, -1), TRUE),
      Args(Str("ship.png"), 0, 5, LeftOut, FALSE),
      Args(Surface(Tile), 10, 20, LeftOut, TRUE),
      Args(Surface(Tile), 0, 5, Given(-20, 10), FALSE),
      Args(Str("missing.png"), 10, 20, LeftOut, TRUE),
      Args(Other, 0, 5, Given(2, -1), TRUE) }

\* Values a caller assigns to a velocity component in place (0.1).
ComponentArgs == {2}

DtArgs == {0, 5, 100, 200}
\* The events and screen arguments of update: both left out, or both given.
FrameArgs == {[events |-> None, screen |-> None],
              [events |-> "KEYDOWN", screen |-> "screen"]}

Components == {"x", "y"}

\* ------------------------------------------------------------------- state
VARIABLES
    pygame_init,   \* pygame.get_init()
    vectors,       \* the Vector2 objects alive, by identity
    elements,      \* the attributes of the GameElement objects constructed
    screen,        \* the blits made onto the display surface, in order
    calls,         \* number of method calls and attribute writes made
    history,       \* per element: built without a velocity argument?, and the
                   \* updates made since its velocity last changed
    last           \* the last call: its arguments, the state before, its outcome

vars == <<pygame_init, vectors, elements, screen, calls, history, last>>

\* The identity of the one Vector2(0, 0) the def statement evaluates for the
\* velocity parameter's default.
DefaultVelocity == 0

NewObject == <<>>

SetAttr(self, name, value) == (name :> value) @@ self

\* ------------------------------------------------------------ pygame parts
\* A C double cut to a C int: toward zero.
Trunc(n) == IF n >= 0 THEN n \div VelScale ELSE -((-n) \div VelScale)

get_rect_center(image, x, y) ==
    [x |-> x - image.w \div 2, y |-> y - image.h \div 2, w |-> image.w, h |-> image.h]

\* Surface.get_rect(topleft=(x, y))
get_rect(image, x, y) == [x |-> x, y |-> y, w |-> image.w, h |-> image.h]

inflate_ip(rect, dx, dy) == [rect EXCEPT !.w = @ + Trunc(dx), !.h = @ + Trunc(dy)]

\* Rect.move_ip(dx, dy)
move_ip(rect, dx, dy) == [rect EXCEPT !.x = @ + Trunc(dx), !.y = @ + Trunc(dy)]

topleft(rect) == <<rect.x, rect.y>>

size(rect) == <<rect.w, rect.h>>

\* pygame.image.load(path).convert_alpha()
load(path) == [name |-> path, w |-> Files[path].w, h |-> Files[path].h]

\* Surface.blit(source, dest)
blit(target, source, dest) == Append(target, [source |-> source, dest |-> dest])

\* ------------------------------------------------------------- GameElement
Outcome(exc, cls, self, loaded) ==
    [exc |-> exc, class_named |-> cls, self |-> self, loaded |-> loaded]

\* Lines 110-115 of __init__: the rect and the passed in settings.
init_settings(self, x, y, velocity, collidable) ==
    LET s1 == SetAttr(self, "rect", get_rect(self["image"], x, y))
        s2 == SetAttr(s1, "velocity", velocity)
    IN  SetAttr(s2, "collidable", collidable)

init_check_last(cls, image, x, y, velocity, collidable) ==
    IF image.kind \notin {"str", "Surface"}
    THEN Outcome("ValueError", None, NewObject, <<>>)
    ELSE IF image.kind = "str" /\ image.path \notin DOMAIN Files
    THEN Outcome("pygame.error", None, NewObject, <<image.path>>)
    ELSE LET surface == IF image.kind = "str" THEN load(image.path) ELSE image.surface
             loaded == IF image.kind = "str" THEN <<image.path>> ELSE <<>>
         IN  IF ~pygame_init
             THEN Outcome("RuntimeError", cls, SetAttr(NewObject, "image", surface), loaded)
             ELSE Outcome(None, None,
                          init_settings(SetAttr(NewObject, "image", surface),
                                        x, y, velocity, collidable),
                          loaded)

init_settings_first(cls, image, x, y, velocity, collidable) ==
    LET s1 == SetAttr(SetAttr(NewObject, "velocity", velocity), "collidable", collidable)
    IN  IF ~pygame_init
        THEN Outcome("RuntimeError", cls, NewObject, <<>>)
        ELSE IF image.kind = "str"
        THEN IF image.path \in DOMAIN Files
             THEN Outcome(None, None,
                          init_settings(SetAttr(s1, "image", load(image.path)),
                                        x, y, velocity, collidable),
                          <<image.path>>)
             ELSE Outcome("pygame.error", None, s1, <<image.path>>)
        ELSE IF image.kind = "Surface"
        THEN Outcome(None, None,
                     init_settings(SetAttr(s1, "image", image.surface),
                                   x, y, velocity, collidable),
                     <<>>)
        ELSE Outcome("ValueError", None, s1, <<>>)

\* GameElement.__init__: the exception raised (None when it returns), the
\* class its message names, the attributes set on self, the files loaded.
__init__(cls, image, x, y, velocity, collidable) ==
    IF ~pygame_init
    THEN Outcome("RuntimeError", cls, NewObject, <<>>)
    ELSE IF image.kind = "str"
    THEN IF image.path \in DOMAIN Files
         THEN Outcome(None, None,
                      init_settings(SetAttr(NewObject, "image", load(image.path)),
                                    x, y, velocity, collidable),
                      <<image.path>>)
         ELSE Outcome("pygame.error", None, NewObject, <<image.path>>)
    ELSE IF image.kind = "Surface"
    THEN Outcome(None, None,
                 init_settings(SetAttr(NewObject, "image", image.surface),
                               x, y, velocity, collidable),
                 <<>>)
    ELSE Outcome("ValueError", None, NewObject, <<>>)

update_unscaled(self, dt, events, on_screen) ==
    LET velocity == vectors[self["velocity"]]
    IN  SetAttr(self, "rect", move_ip(self["rect"], velocity.x, velocity.y))

\* GameElement.update(dt, events, screen): self afterwards.
update(self, dt, events, on_screen) ==
    LET velocity == vectors[self["velocity"]]
    IN  SetAttr(self, "rect",
                move_ip(self["rect"], velocity.x * dt, velocity.y * dt))

collided_with_once(self, other_element) ==
    <<SetAttr(self, "collidable", FALSE), other_element>>

\* GameElement.collided_with(other_element): self and the other afterwards.
collided_with(self, other_element) == <<self, other_element>>

draw_center(self, on_screen) ==
    <<self, blit(on_screen, self["image"],
                 <<self["rect"].x + self["rect"].w \div 2,
                   self["rect"].y + self["rect"].h \div 2>>)>>

\* GameElement.draw(screen): self and the screen afterwards.
draw(self, on_screen) ==
    <<self, blit(on_screen, self["image"], topleft(self["rect"]))>>

\* ------------------------------------------------------------------- calls
NoArgs ==
    [cls |-> None, init |-> Args(Other, 0, 0, LeftOut, FALSE),
     a |-> 0, b |-> 0, dt |-> 0, component |-> None]

NoOutcome == Outcome(None, None, NewObject, <<>>)

Call(op, args, outcome) ==
    [op |-> op, args |-> args, outcome |-> outcome,
     pre_elements |-> elements, pre_vectors |-> vectors, pre_screen |-> screen]

Ids == 1..Len(elements)

\* pygame.init(), which the program calls before it builds its elements.
PygameInit ==
    /\ ~pygame_init
    /\ pygame_init' = TRUE
    /\ last' = Call("pygame.init", NoArgs, NoOutcome)
    /\ UNCHANGED <<vectors, elements, screen, calls, history>>

\* cls(image, x, y, velocity, collidable), or cls(image, x, y, collidable=...)
\* with the default velocity.  An object whose __init__ raises is never
\* bound to a name.
Construct ==
    /\ Len(elements) < MaxElems
    /\ \E cls \in Classes, args \in ConstructArgs :
          LET id == Len(elements) + 1
              velocity == IF args.velocity.given THEN id ELSE DefaultVelocity
              out == __init__(cls, args.image, args.x, args.y, velocity,
                              args.collidable)
          IN  /\ last' = Call("__init__",
                              [NoArgs EXCEPT !.cls = cls, !.init = args], out)
              /\ IF out.exc = None
                 THEN /\ elements' = Append(elements, out.self)
                      /\ vectors' = IF args.velocity.given
                                    THEN (id :> args.velocity.value) @@ vectors
                                    ELSE vectors
                      /\ history' = Append(history,
                                           [left_out |-> ~args.velocity.given,
                                            trail |-> <<>>])
                 ELSE UNCHANGED <<elements, vectors, history>>
    /\ UNCHANGED <<pygame_init, screen, calls>>

\* element.update(dt, events, screen), element.update(dt)
Update ==
    /\ calls < MaxCalls
    /\ \E a \in Ids, dt \in DtArgs, frame \in FrameArgs :
          /\ elements' = [elements EXCEPT
                            ![a] = update(@, dt, frame.events, frame.screen)]
          /\ history' = [history EXCEPT
                           ![a].trail = Append(@, [dt |-> dt,
                                                   from |-> topleft(elements[a]["rect"])])]
          /\ last' = Call("update", [NoArgs EXCEPT !.a = a, !.dt = dt], NoOutcome)
    /\ calls' = calls + 1
    /\ UNCHANGED <<pygame_init, vectors, screen>>

\* a.collided_with(b)
CollidedWith ==
    /\ calls < MaxCalls
    /\ \E a \in Ids, b \in Ids :
          LET after == collided_with(elements[a], elements[b])
          IN  /\ elements' = [[elements EXCEPT ![b] = after[2]] EXCEPT ![a] = after[1]]
              /\ last' = Call("collided_with", [NoArgs EXCEPT !.a = a, !.b = b],
                              NoOutcome)
    /\ calls' = calls + 1
    /\ UNCHANGED <<pygame_init, vectors, screen, history>>

\* element.draw(screen)
Draw ==
    /\ calls < MaxCalls
    /\ \E a \in Ids :
          LET after == draw(elements[a], screen)
          IN  /\ elements' = [elements EXCEPT ![a] = after[1]]
              /\ screen' = after[2]
              /\ last' = Call("draw", [NoArgs EXCEPT !.a = a], NoOutcome)
    /\ calls' = calls + 1
    /\ UNCHANGED <<pygame_init, vectors, history>>

\* element.velocity.x = value, element.velocity.y = value: the public
\* velocity attribute is a mutable Vector2, changed in place.
SetVelocityComponent ==
    /\ calls < MaxCalls
    /\ \E a \in Ids, c \in Components, value \in ComponentArgs :
          LET v == elements[a]["velocity"]
          IN  /\ vectors[v][c] # value
              /\ vectors' = [vectors EXCEPT ![v][c] = value]
              /\ history' = [i \in Ids |->
                               IF elements[i]["velocity"] = v
                               THEN [history[i] EXCEPT !.trail = <<>>]
                               ELSE history[i]]
              /\ last' = Call("velocity.set",
                              [NoArgs EXCEPT !.a = a, !.component = c], NoOutcome)
    /\ calls' = calls + 1
    /\ UNCHANGED <<pygame_init, elements, screen>>

Init ==
    /\ pygame_init = FALSE
    /\ vectors = (DefaultVelocity :> Vector2(0, 0))
    /\ elements = <<>>
    /\ screen = <<>>
    /\ calls = 0
    /\ history = <<>>
    /\ last = [op |-> None, args |-> NoArgs, outcome |-> NoOutcome,
               pre_elements |-> <<>>,
               pre_vectors |-> (DefaultVelocity :> Vector2(0, 0)),
               pre_screen |-> <<>>]

Next ==
    \/ PygameInit
    \/ Construct
    \/ Update
    \/ CollidedWith
    \/ Draw
    \/ SetVelocityComponent

Spec == Init /\ [][Next]_vars

\* ------------------------------------------------------------------ claims
Element(i) == elements[i]
Before(i) == last.pre_elements[i]
Velocity(i) == vectors[elements[i]["velocity"]]
VelocityBefore(i) == last.pre_vectors[last.pre_elements[i]["velocity"]]
Newest == Len(elements)

ImageSize(image) ==
    IF image.kind = "str"
    THEN <<Files[image.path].w, Files[image.path].h>>
    ELSE <<image.surface.w, image.surface.h>>

Constructed == last.op = "__init__" /\ last.outcome.exc = None

\* C1: after a successful construction rect.topleft is (x, y), rect.size is
\* the image's (width, height), and velocity and collidable are the values
\* passed in.
C1_ConstructionSetsRect ==
    Constructed =>
        /\ Newest = Len(last.pre_elements) + 1
        /\ topleft(Element(Newest)["rect"]) = <<last.args.init.x, last.args.init.y>>
        /\ size(Element(Newest)["rect"]) = ImageSize(last.args.init.image)
        /\ size(Element(Newest)["rect"])
             = <<Element(Newest)["image"].w, Element(Newest)["image"].h>>
        /\ Element(Newest)["collidable"] = last.args.init.collidable
        /\ IF last.args.init.velocity.given
           THEN /\ Element(Newest)["velocity"] = Newest
                /\ Velocity(Newest) = last.args.init.velocity.value
           ELSE Element(Newest)["velocity"] = DefaultVelocity

C1_Witness ==
    /\ Constructed
    /\ last.args.init.velocity.given
    /\ last.args.init.image.kind = "str"
    /\ last.args.init.x = 10
    /\ last.args.cls = "Player"

\* The last two updates of element i since its velocity last changed.
LastTwo(i) ==
    LET n == Len(history[i].trail)
    IN  <<history[i].trail[n - 1], history[i].trail[n]>>

At(self, position) ==
    SetAttr(self, "rect", [self["rect"] EXCEPT !.x = position[1], !.y = position[2]])

\* C2: update(dt1) then update(dt2) leaves the rect at the initial position
\* plus (vx*(dt1+dt2), vy*(dt1+dt2)), which is where a single
\* update(dt1+dt2) from the initial position leaves it.
C2_UpdateComposable ==
    \A i \in Ids :
        Len(history[i].trail) >= 2 =>
            LET t == LastTwo(i)
                total == t[1].dt + t[2].dt
                rect == Element(i)["rect"]
            IN  /\ VelScale * rect.x = VelScale * t[1].from[1] + Velocity(i).x * total
                /\ VelScale * rect.y = VelScale * t[1].from[2] + Velocity(i).y * total
                /\ rect = update(At(Element(i), t[1].from), total, None, None)["rect"]

\* C3: one update(dt, events, screen) moves the top-left from (px, py) to
\* (px + velocity.x*dt, py + velocity.y*dt) with no clamping and changes
\* nothing else; an element built at (10, 20) with velocity (0.1, -0.05) is
\* at (20, 15) after update(100) and at (40, 5) after a further update(200).
C3_UpdateMovesByVelocityTimesDt ==
    /\ last.op = "update" =>
          LET a == last.args.a
          IN  /\ VelScale * Element(a)["rect"].x
                   = VelScale * Before(a)["rect"].x + Velocity(a).x * last.args.dt
              /\ VelScale * Element(a)["rect"].y
                   = VelScale * Before(a)["rect"].y + Velocity(a).y * last.args.dt
              /\ size(Element(a)["rect"]) = size(Before(a)["rect"])
              /\ Element(a)["image"] = Before(a)["image"]
              /\ Element(a)["collidable"] = Before(a)["collidable"]
              /\ Element(a)["velocity"] = Before(a)["velocity"]
              /\ vectors = last.pre_vectors
    /\ \A i \in Ids :
          Velocity(i) = Vector2(2, -1) =>
              /\ history[i].trail = <<[dt |-> 100, from |-> <<10, 20>>]>>
                    => topleft(Element(i)["rect"]) = <<20, 15>>
              /\ history[i].trail = <<[dt |-> 100, from |-> <<10, 20>>],
                                      [dt |-> 200, from |-> <<20, 15>>]>>
                    => topleft(Element(i)["rect"]) = <<40, 5>>

\* C4: update with dt = 0 leaves rect.topleft where it was, for every
\* velocity and for any number of update(0) calls in a row.
C4_UpdateZeroIsNoOp ==
    /\ (last.op = "update" /\ last.args.dt = 0) =>
          topleft(Element(last.args.a)["rect"]) = topleft(Before(last.args.a)["rect"])
    /\ \A i \in Ids : \A k \in 1..Len(history[i].trail) :
          (\A j \in k..Len(history[i].trail) : history[i].trail[j].dt = 0)
              => topleft(Element(i)["rect"]) = history[i].trail[k].from

C4_Witness ==
    /\ last.op = "update"
    /\ last.args.dt = 0
    /\ Velocity(last.args.a).x # 0
    /\ Velocity(last.args.a).y # 0
    /\ Len(history[last.args.a].trail) >= 2
    /\ LastTwo(last.args.a)[1].dt = 0

Unchanged(i, attrs) == \A n \in attrs : Element(i)[n] = Before(i)[n]

\* C5: a.collided_with(b) leaves rect, velocity and collidable of a and of b
\* as they were, also when a = b, whatever the collidable flags are.
C5_CollidedWithChangesNothing ==
    last.op = "collided_with" =>
        /\ Len(elements) = Len(last.pre_elements)
        /\ \A i \in {last.args.a, last.args.b} :
              /\ Unchanged(i, {"rect", "velocity", "collidable"})
              /\ Velocity(i) = VelocityBefore(i)

C5_Witness ==
    /\ last.op = "collided_with"
    /\ last.args.a # last.args.b
    /\ Element(last.args.a)["collidable"]
    /\ ~Element(last.args.b)["collidable"]
    /\ Velocity(last.args.a) # Vector2(0, 0)

\* C6: draw(screen) leaves rect, velocity, image and collidable as they were;
\* its one effect is the image blitted onto screen at rect.topleft.
C6_DrawOnlyBlits ==
    last.op = "draw" =>
        /\ elements = last.pre_elements
        /\ vectors = last.pre_vectors
        /\ Unchanged(last.args.a, {"rect", "velocity", "image", "collidable"})
        /\ screen = Append(last.pre_screen,
                           [source |-> Before(last.args.a)["image"],
                            dest |-> topleft(Before(last.args.a)["rect"])])

C6_Witness ==
    /\ last.op = "draw"
    /\ Len(history[last.args.a].trail) = 1
    /\ topleft(Element(last.args.a)["rect"]) # history[last.args.a].trail[1].from
    /\ screen[Len(screen)].dest = topleft(Element(last.args.a)["rect"])

\* C7: construction while pygame is not initialized raises the error that
\* names the class being constructed, whatever the image argument is; no
\* image is loaded and no attribute is set.
C7_UninitializedRaises ==
    (last.op = "__init__" /\ ~pygame_init) =>
        /\ last.outcome.exc = "RuntimeError"
        /\ last.outcome.class_named = last.args.cls
        /\ last.outcome.loaded = <<>>
        /\ DOMAIN last.outcome.self = {}
        /\ elements = last.pre_elements
        /\ vectors = last.pre_vectors

C7_Witness ==
    /\ last.op = "__init__"
    /\ ~pygame_init
    /\ last.args.cls = "Player"
    /\ last.args.init.image = Other
    /\ last.outcome.class_named = "Player"

\* C8: with pygame initialized, an image that is neither a str nor a Surface
\* raises ValueError and the element gets no image, rect, velocity or
\* collidable.
C8_InvalidImageRaises ==
    (last.op = "__init__" /\ pygame_init
        /\ last.args.init.image.kind \notin {"str", "Surface"}) =>
        /\ last.outcome.exc = "ValueError"
        /\ DOMAIN last.outcome.self = {}
        /\ elements = last.pre_elements
        /\ vectors = last.pre_vectors

C8_Witness ==
    /\ last.op = "__init__"
    /\ pygame_init
    /\ last.args.init.image = Other
    /\ last.outcome.exc = "ValueError"
    /\ Len(elements) = 1

\* C9: after construction and any calls of update, collided_with and draw in
\* any order the rect's width and height are the image's.
C9_RectSizeIsImageSize ==
    \A i \in Ids :
        size(Element(i)["rect"]) = <<Element(i)["image"].w, Element(i)["image"].h>>

C9_Witness ==
    /\ last.op = "update"
    /\ screen # <<>>
    /\ topleft(Element(last.args.a)["rect"]) # topleft(Before(last.args.a)["rect"])

\* C10: two elements built without a velocity argument own their velocities
\* separately: changing a component of one's velocity in place leaves the
\* other's velocity, and so the move of its next update, as it was.
C10_DefaultVelocityNotShared ==
    last.op = "velocity.set" =>
        \A b \in Ids :
            (b # last.args.a /\ history[b].left_out /\ history[last.args.a].left_out) =>
                /\ Velocity(b) = VelocityBefore(b)
                /\ \A dt \in DtArgs :
                      update(Element(b), dt, None, None)["rect"]
                          = move_ip(Before(b)["rect"], VelocityBefore(b).x * dt,
                                    VelocityBefore(b).y * dt)
====
